---------------------------- MODULE Spec2Model ----------------------------
(***************************************************************************)
(* DAG-JOSE codec (ceramicnetwork/rust-dag-jose).                          *)
(*                                                                         *)
(* Three layers are modelled:                                              *)
(*   - the domain model (Jose, JsonWebSignature, JsonWebEncryption,        *)
(*     Signature, Recipient) whose text fields are base64url text;         *)
(*   - the wire model (Encoded, EncodedSignature, EncodedRecipient) whose  *)
(*     fields are raw bytes, and the Decoded mirror with text fields;      *)
(*   - the DAG-CBOR data items the serializer writes and the deserializer  *)
(*     reads.                                                              *)
(*                                                                         *)
(* Representation.                                                         *)
(*   Option<T>      None == <<>>,  Some(x) == <<x>>                        *)
(*   String         sequence of character codes; base64url text is a      *)
(*                  sequence of symbols: 0..63 is the index in the         *)
(*                  URL-safe alphabet, 64 is '=' and 65 is '+'             *)
(*   Bytes          sequence of 0..255                                     *)
(*   BTreeMap<K,V>  sequence of <<key, value>> ascending by key            *)
(*   Result         <<"Ok", v>>, <<"Err", e>>, and <<"Panic">> for an      *)
(*                  unwinding panic                                        *)
(*   CBOR item      <<"Bytes", b>>, <<"String", s>>, <<"Integer", n>>,     *)
(*                  <<"List", items>>, <<"Map", entries>> where entries    *)
(*                  is the sequence of <<key, item>> in the order they     *)
(*                  appear in the byte stream.  DAG-CBOR has one byte      *)
(*                  encoding per item (definite lengths, minimal heads),   *)
(*                  so two byte strings are equal iff their items are.     *)
(***************************************************************************)
EXTENDS Integers, Sequences, FiniteSets, TLC

None == <<>>
Some(x) == <<x>>
IsSome(o) == o # <<>>
Unwrap(o) == o[1]

Ok(v) == <<"Ok", v>>
Err(e) == <<"Err", e>>
Panic == <<"Panic">>
IsOk(r) == r[1] = "Ok"
IsErr(r) == r[1] = "Err"

(***************************************************************************)
(* Bounds of the model.                                                    *)
(***************************************************************************)
MaxSigs == 1
MaxRecips == 1
MaxHeader == 2

(***************************************************************************)
(* Field names, as character codes.                                        *)
(***************************************************************************)
K_payload == <<112, 97, 121, 108, 111, 97, 100>>
K_signatures == <<115, 105, 103, 110, 97, 116, 117, 114, 101, 115>>
K_iv == <<105, 118>>
K_aad == <<97, 97, 100>>
K_tag == <<116, 97, 103>>
K_protected == <<112, 114, 111, 116, 101, 99, 116, 101, 100>>
K_ciphertext == <<99, 105, 112, 104, 101, 114, 116, 101, 120, 116>>
K_recipients == <<114, 101, 99, 105, 112, 105, 101, 110, 116, 115>>
K_unprotected == <<117, 110, 112, 114, 111, 116, 101, 99, 116, 101, 100>>
K_header == <<104, 101, 97, 100, 101, 114>>
K_signature == <<115, 105, 103, 110, 97, 116, 117, 114, 101>>
K_link == <<108, 105, 110, 107>>
K_encrypted_key == <<101, 110, 99, 114, 121, 112, 116, 101, 100, 95, 107, 101, 121>>

(***************************************************************************)
(* base64url, URL-safe alphabet, no padding (base64_url::encode/decode).   *)
(***************************************************************************)
RECURSIVE Base64Encode(_)
Base64Encode(b) ==
  IF Len(b) = 0 THEN <<>>
  ELSE IF Len(b) = 1 THEN
    << b[1] \div 4, (b[1] % 4) * 16 >>
  ELSE IF Len(b) = 2 THEN
    << b[1] \div 4, (b[1] % 4) * 16 + (b[2] \div 16), (b[2] % 16) * 4 >>
  ELSE
    << b[1] \div 4,
       (b[1] % 4) * 16 + (b[2] \div 16),
       (b[2] % 16) * 4 + (b[3] \div 64),
       b[3] % 64 >> \o Base64Encode(SubSeq(b, 4, Len(b)))

\* The quantum of four symbols (or the final two or three) as bytes.
RECURSIVE Base64Bytes(_)
Base64Bytes(s) ==
  IF Len(s) < 2 THEN <<>>
  ELSE IF Len(s) = 2 THEN
    << s[1] * 4 + (s[2] \div 16) >>
  ELSE IF Len(s) = 3 THEN
    << s[1] * 4 + (s[2] \div 16), (s[2] % 16) * 16 + (s[3] \div 4) >>
  ELSE
    << s[1] * 4 + (s[2] \div 16),
       (s[2] % 16) * 16 + (s[3] \div 4),
       (s[3] % 4) * 64 + s[4] >> \o Base64Bytes(SubSeq(s, 5, Len(s)))

\* Bits of the last symbol that do not belong to any byte.
Base64TrailingBits(s) ==
  IF Len(s) % 4 = 2 THEN s[Len(s)] % 16
  ELSE IF Len(s) % 4 = 3 THEN s[Len(s)] % 4
  ELSE 0

Base64Decode(s) ==
  LET bad == {i \in 1..Len(s) : s[i] > 63} IN
  IF bad # {} THEN
    LET i == CHOOSE j \in bad : \A k \in bad : j <= k
    IN  Err(<<"InvalidBase64Url", "InvalidByte", i - 1, s[i]>>)
  ELSE IF Len(s) % 4 = 1 THEN
    Err(<<"InvalidBase64Url", "InvalidLength", 0, 0>>)
  ELSE IF Base64TrailingBits(s) # 0 THEN
    Err(<<"InvalidBase64Url", "InvalidLastSymbol", Len(s) - 1, s[Len(s)]>>)
  ELSE Ok(Base64Bytes(s))

(***************************************************************************)
(* Content identifiers (Cid::try_from(&[u8])).  A Cid is                   *)
(* <<version, codec, hash code, digest>>.  The bytes are read in order:    *)
(* version, codec, then the multihash (code, size, digest).  Reading stops *)
(* after the digest: bytes that follow it are not looked at.               *)
(***************************************************************************)
InvalidCid == Err(<<"InvalidCid">>)

\* unsigned-varint: Ok(<<value, rest>>), or an error when the bytes end
\* inside the number or the number is not minimal.
RECURSIVE VarintRead(_)
VarintMore(byte, r) ==
  IF IsErr(r) THEN r
  ELSE IF r[2][1] = 0 THEN InvalidCid
  ELSE Ok(<<(byte - 128) + 128 * r[2][1], r[2][2]>>)

VarintRead(b) ==
  IF Len(b) = 0 THEN InvalidCid
  ELSE IF b[1] < 128 THEN Ok(<<b[1], Tail(b)>>)
  ELSE VarintMore(b[1], VarintRead(Tail(b)))

MultihashDigest(code, size) ==
  IF IsErr(size) THEN size
  ELSE IF size[2][1] > 64 THEN InvalidCid
  ELSE IF Len(size[2][2]) < size[2][1] THEN InvalidCid
  ELSE Ok(<<code, SubSeq(size[2][2], 1, size[2][1])>>)

MultihashSize(code) ==
  IF IsErr(code) THEN code
  ELSE MultihashDigest(code[2][1], VarintRead(code[2][2]))

MultihashRead(b) == MultihashSize(VarintRead(b))

CidV1(codec, mh) ==
  IF IsErr(mh) THEN mh ELSE Ok(<<1, codec, mh[2][1], mh[2][2]>>)

CidBody(version, codec) ==
  IF IsErr(codec) THEN codec
  ELSE IF version = 18 /\ codec[2][1] = 32 THEN
    IF Len(codec[2][2]) < 32 THEN InvalidCid
    ELSE Ok(<<0, 112, 18, SubSeq(codec[2][2], 1, 32)>>)
  ELSE IF version # 1 THEN InvalidCid
  ELSE CidV1(codec[2][1], MultihashRead(codec[2][2]))

CidCodec(version) ==
  IF IsErr(version) THEN version
  ELSE CidBody(version[2][1], VarintRead(version[2][2]))

CidTryFrom(b) == CidCodec(VarintRead(b))

(***************************************************************************)
(* Ordering of map keys.                                                   *)
(***************************************************************************)
\* Ord for String: byte-wise lexicographic, a proper prefix first.
RECURSIVE StrLess(_, _)
StrLess(a, b) ==
  IF Len(b) = 0 THEN FALSE
  ELSE IF Len(a) = 0 THEN TRUE
  ELSE IF a[1] # b[1] THEN a[1] < b[1]
  ELSE StrLess(Tail(a), Tail(b))

\* DAG-CBOR canonical order: shorter key first, equal lengths byte-wise.
CborKeyLess(a, b) ==
  \/ Len(a) < Len(b)
  \/ Len(a) = Len(b) /\ StrLess(a, b)

\* Mutant of BTreeMap_insert: a map that keeps the entries in insertion
\* order (a new key is appended).
BTreeMap_insert_Unordered(m, k, v) ==
  IF \E i \in 1..Len(m) : m[i][1] = k
  THEN [i \in 1..Len(m) |-> IF m[i][1] = k THEN <<k, v>> ELSE m[i]]
  ELSE Append(m, <<k, v>>)

\* BTreeMap::insert: the entry goes to its place in key order; an equal key
\* has its value replaced.
RECURSIVE BTreeMap_insert(_, _, _)
BTreeMap_insert(m, k, v) ==
  IF Len(m) = 0 THEN << <<k, v>> >>
  ELSE IF m[1][1] = k THEN << <<k, v>> >> \o Tail(m)
  ELSE IF StrLess(k, m[1][1]) THEN << <<k, v>> >> \o m
  ELSE << m[1] >> \o BTreeMap_insert(Tail(m), k, v)

\* BTreeMap::from([(k, v), ...]): the entries inserted one after another.
RECURSIVE BTreeMap_from(_)
BTreeMap_from(entries) ==
  IF Len(entries) = 0 THEN <<>>
  ELSE LET last == entries[Len(entries)]
       IN  BTreeMap_insert(BTreeMap_from(SubSeq(entries, 1, Len(entries) - 1)),
                           last[1], last[2])

(***************************************************************************)
(* Conversion layer: base64 text <-> bytes (codec.rs, FromBase64/ToBase64) *)
(***************************************************************************)
\* Result<T, E> -> Result<Option<T>, E>: what Option::map followed by
\* transpose makes of the result of the closure.
SomeOk(r) == IF IsErr(r) THEN r ELSE Ok(Some(r[2]))

from_base64(value) == Base64Decode(value)

Option_from_base64(value) ==
  IF value = None THEN Ok(None) ELSE SomeOk(from_base64(Unwrap(value)))

\* Mutant of to_base64: the padded encoding ('=' up to a multiple of four).
to_base64_Padded(bytes) ==
  Base64Encode(bytes)
    \o [i \in 1..((4 - (Len(Base64Encode(bytes)) % 4)) % 4) |-> 64]

to_base64(bytes) == Base64Encode(bytes)

Option_to_base64(value) ==
  IF value = None THEN None ELSE Some(to_base64(Unwrap(value)))

\* The first Err of a sequence of results, in order; <<>> when all are Ok.
FirstErr(rs) ==
  IF \A i \in 1..Len(rs) : ~IsErr(rs[i]) THEN <<>>
  ELSE rs[CHOOSE i \in 1..Len(rs) :
            IsErr(rs[i]) /\ \A j \in 1..(i - 1) : ~IsErr(rs[j])]

\* Iterator::collect::<Result<Vec<_>, _>>()
TryCollect(rs) ==
  IF FirstErr(rs) # <<>> THEN FirstErr(rs)
  ELSE Ok([i \in 1..Len(rs) |-> rs[i][2]])

(***************************************************************************)
(* Conversion layer: domain -> Decoded (codec.rs, the From impls).         *)
(***************************************************************************)
DecodedSignature_from_Signature(value) ==
  [ header    |-> IF value.header = <<>> THEN None ELSE Some(value.header),
    protected |-> value.protected,
    signature |-> value.signature ]

DecodedRecipient_from_Recipient(value) ==
  [ encrypted_key |-> value.encrypted_key,
    header        |-> IF value.header = <<>> THEN None ELSE Some(value.header) ]

\* Mutant of Decoded_from_JsonWebSignature: the payload is written from the
\* bytes of the link the caller supplied.
Decoded_from_JsonWebSignature_PayloadFromLink(value) ==
  [ payload     |-> Some(to_base64(<<value.link[1], value.link[2], value.link[3],
                                     Len(value.link[4])>> \o value.link[4])),
    signatures  |-> IF value.signatures = <<>> THEN None
                    ELSE Some([i \in 1..Len(value.signatures) |->
                                 DecodedSignature_from_Signature(value.signatures[i])]),
    link        |-> Some(value.link),
    aad         |-> None,
    ciphertext  |-> None,
    iv          |-> None,
    protected   |-> None,
    recipients  |-> None,
    tag         |-> None,
    unprotected |-> None ]

\* Mutant of Decoded_from_JsonWebSignature: the JWS carries an empty
\* unprotected map, a field of the JWE group.
Decoded_from_JsonWebSignature_EmptyUnprotected(value) ==
  [ payload     |-> Some(value.payload),
    signatures  |-> IF value.signatures = <<>> THEN None
                    ELSE Some([i \in 1..Len(value.signatures) |->
                                 DecodedSignature_from_Signature(value.signatures[i])]),
    link        |-> Some(value.link),
    aad         |-> None,
    ciphertext  |-> None,
    iv          |-> None,
    protected   |-> None,
    recipients  |-> None,
    tag         |-> None,
    unprotected |-> Some(<<>>) ]

Decoded_from_JsonWebSignature(value) ==
  [ payload     |-> Some(value.payload),
    signatures  |-> IF value.signatures = <<>> THEN None
                    ELSE Some([i \in 1..Len(value.signatures) |->
                                 DecodedSignature_from_Signature(value.signatures[i])]),
    link        |-> Some(value.link),
    aad         |-> None,
    ciphertext  |-> None,
    iv          |-> None,
    protected   |-> None,
    recipients  |-> None,
    tag         |-> None,
    unprotected |-> None ]

\* Mutant of Decoded_from_JsonWebEncryption: recipients and unprotected are
\* passed on also when they are empty.
Decoded_from_JsonWebEncryption_KeepEmpty(value) ==
  [ payload     |-> None,
    signatures  |-> None,
    link        |-> None,
    aad         |-> value.aad,
    ciphertext  |-> Some(value.ciphertext),
    iv          |-> Some(value.iv),
    protected   |-> Some(value.protected),
    recipients  |-> Some([i \in 1..Len(value.recipients) |->
                            DecodedRecipient_from_Recipient(value.recipients[i])]),
    tag         |-> Some(value.tag),
    unprotected |-> Some(value.unprotected) ]

\* Mutant of Decoded_from_JsonWebEncryption: an empty iv is treated as
\* absent.
Decoded_from_JsonWebEncryption_EmptyIvAbsent(value) ==
  [ payload     |-> None,
    signatures  |-> None,
    link        |-> None,
    aad         |-> value.aad,
    ciphertext  |-> Some(value.ciphertext),
    iv          |-> IF value.iv = <<>> THEN None ELSE Some(value.iv),
    protected   |-> Some(value.protected),
    recipients  |-> IF value.recipients = <<>> THEN None
                    ELSE Some([i \in 1..Len(value.recipients) |->
                                 DecodedRecipient_from_Recipient(value.recipients[i])]),
    tag         |-> Some(value.tag),
    unprotected |-> IF value.unprotected = <<>> THEN None
                    ELSE Some(value.unprotected) ]

Decoded_from_JsonWebEncryption(value) ==
  [ payload     |-> None,
    signatures  |-> None,
    link        |-> None,
    aad         |-> value.aad,
    ciphertext  |-> Some(value.ciphertext),
    iv          |-> Some(value.iv),
    protected   |-> Some(value.protected),
    recipients  |-> IF value.recipients = <<>> THEN None
                    ELSE Some([i \in 1..Len(value.recipients) |->
                                 DecodedRecipient_from_Recipient(value.recipients[i])]),
    tag         |-> Some(value.tag),
    unprotected |-> IF value.unprotected = <<>> THEN None
                    ELSE Some(value.unprotected) ]

\* A Jose value is <<"Signature", jws>> or <<"Encryption", jwe>>.
Decoded_from_Jose(value) ==
  IF value[1] = "Signature" THEN Decoded_from_JsonWebSignature(value[2])
  ELSE Decoded_from_JsonWebEncryption(value[2])

(***************************************************************************)
(* Conversion layer: Decoded -> Encoded (codec.rs, the TryFrom impls).     *)
(* The fields of the struct expression are converted in the order they are *)
(* written and `?` returns the first failure; the struct is built from the *)
(* converted fields when there is none.                                    *)
(***************************************************************************)
EncodedSignature_struct(header, rs) ==
  IF FirstErr(rs) # <<>> THEN FirstErr(rs)
  ELSE Ok([ header    |-> header,
            protected |-> rs[1][2],
            signature |-> rs[2][2] ])

EncodedSignature_try_from(value) ==
  EncodedSignature_struct(value.header,
    << Option_from_base64(value.protected), from_base64(value.signature) >>)

EncodedRecipient_struct(header, rs) ==
  IF FirstErr(rs) # <<>> THEN FirstErr(rs)
  ELSE Ok([ header        |-> header,
            encrypted_key |-> rs[1][2] ])

EncodedRecipient_try_from(value) ==
  EncodedRecipient_struct(value.header, << Option_from_base64(value.encrypted_key) >>)

\* value.signatures.map(|sigs| sigs.drain(..).map(try_from).collect()).transpose()
EncodedSignatures_try_from(signatures) ==
  IF signatures = None THEN Ok(None)
  ELSE SomeOk(TryCollect([i \in 1..Len(Unwrap(signatures)) |->
                            EncodedSignature_try_from(Unwrap(signatures)[i])]))

EncodedRecipients_try_from(recipients) ==
  IF recipients = None THEN Ok(None)
  ELSE SomeOk(TryCollect([i \in 1..Len(Unwrap(recipients)) |->
                            EncodedRecipient_try_from(Unwrap(recipients)[i])]))

\* rs: payload, signatures, aad, ciphertext, iv, protected, recipients, tag
Encoded_struct(rs, unprotected) ==
  IF FirstErr(rs) # <<>> THEN FirstErr(rs)
  ELSE Ok([ payload     |-> rs[1][2],
            signatures  |-> rs[2][2],
            iv          |-> rs[5][2],
            aad         |-> rs[3][2],
            tag         |-> rs[8][2],
            protected   |-> rs[6][2],
            ciphertext  |-> rs[4][2],
            recipients  |-> rs[7][2],
            unprotected |-> unprotected ])

\* Mutant of Encoded_try_from: a tag that is not base64url is dropped
\* instead of failing the conversion.
Encoded_try_from_SwallowTag(value) ==
  Encoded_struct(
    << Option_from_base64(value.payload),
       EncodedSignatures_try_from(value.signatures),
       Option_from_base64(value.aad),
       Option_from_base64(value.ciphertext),
       Option_from_base64(value.iv),
       Option_from_base64(value.protected),
       EncodedRecipients_try_from(value.recipients),
       IF IsErr(Option_from_base64(value.tag)) THEN Ok(None)
       ELSE Option_from_base64(value.tag) >>,
    value.unprotected)

Encoded_try_from(value) ==
  Encoded_struct(
    << Option_from_base64(value.payload),
       EncodedSignatures_try_from(value.signatures),
       Option_from_base64(value.aad),
       Option_from_base64(value.ciphertext),
       Option_from_base64(value.iv),
       Option_from_base64(value.protected),
       EncodedRecipients_try_from(value.recipients),
       Option_from_base64(value.tag) >>,
    value.unprotected)

Encoded_try_from_Jose(value) == Encoded_try_from(Decoded_from_Jose(value))

(***************************************************************************)
(* Conversion layer: Encoded -> Decoded (codec.rs, From<Encoded>).         *)
(***************************************************************************)
\* Mutant of DecodedSignature_from_EncodedSignature: the protected header
\* is not carried over.
DecodedSignature_from_EncodedSignature_DropProtected(value) ==
  [ header    |-> value.header,
    protected |-> None,
    signature |-> to_base64(value.signature) ]

DecodedSignature_from_EncodedSignature(value) ==
  [ header    |-> value.header,
    protected |-> Option_to_base64(value.protected),
    signature |-> to_base64(value.signature) ]

DecodedRecipient_from_EncodedRecipient(value) ==
  [ encrypted_key |-> Option_to_base64(value.encrypted_key),
    header        |-> value.header ]

\* value.payload.as_ref().map(|v| Cid::try_from(v.as_slice())).transpose()
Decoded_link(payload) ==
  IF payload = None THEN Ok(None) ELSE SomeOk(CidTryFrom(Unwrap(payload)))

\* Mutant of Decoded_struct: the payload text is taken from the protected
\* bytes when there are any.
Decoded_struct_PayloadFromProtected(value, link) ==
  IF IsErr(link) THEN Panic
  ELSE Ok([ payload     |-> Option_to_base64(IF value.protected # None
                                             THEN value.protected
                                             ELSE value.payload),
            signatures  |-> IF value.signatures = None THEN None
                            ELSE Some([i \in 1..Len(Unwrap(value.signatures)) |->
                              DecodedSignature_from_EncodedSignature(
                                Unwrap(value.signatures)[i])]),
            link        |-> link[2],
            aad         |-> Option_to_base64(value.aad),
            ciphertext  |-> Option_to_base64(value.ciphertext),
            iv          |-> Option_to_base64(value.iv),
            protected   |-> Option_to_base64(value.protected),
            recipients  |-> IF value.recipients = None THEN None
                            ELSE Some([i \in 1..Len(Unwrap(value.recipients)) |->
                              DecodedRecipient_from_EncodedRecipient(
                                Unwrap(value.recipients)[i])]),
            tag         |-> Option_to_base64(value.tag),
            unprotected |-> value.unprotected ])

\* Mutant of Decoded_struct: an empty iv is taken for an absent one.
Decoded_struct_EmptyIvAbsent(value, link) ==
  IF IsErr(link) THEN Panic
  ELSE Ok([ payload     |-> Option_to_base64(value.payload),
            signatures  |-> IF value.signatures = None THEN None
                            ELSE Some([i \in 1..Len(Unwrap(value.signatures)) |->
                              DecodedSignature_from_EncodedSignature(
                                Unwrap(value.signatures)[i])]),
            link        |-> link[2],
            aad         |-> Option_to_base64(value.aad),
            ciphertext  |-> Option_to_base64(value.ciphertext),
            iv          |-> IF value.iv = Some(<<>>) THEN None
                            ELSE Option_to_base64(value.iv),
            protected   |-> Option_to_base64(value.protected),
            recipients  |-> IF value.recipients = None THEN None
                            ELSE Some([i \in 1..Len(Unwrap(value.recipients)) |->
                              DecodedRecipient_from_EncodedRecipient(
                                Unwrap(value.recipients)[i])]),
            tag         |-> Option_to_base64(value.tag),
            unprotected |-> value.unprotected ])

\* `.expect("TODO")` panics when the payload bytes are not a content
\* identifier; otherwise the struct is built, every byte field as text.
Decoded_struct(value, link) ==
  IF IsErr(link) THEN Panic
  ELSE Ok([ payload     |-> Option_to_base64(value.payload),
            signatures  |-> IF value.signatures = None THEN None
                            ELSE Some([i \in 1..Len(Unwrap(value.signatures)) |->
                              DecodedSignature_from_EncodedSignature(
                                Unwrap(value.signatures)[i])]),
            link        |-> link[2],
            aad         |-> Option_to_base64(value.aad),
            ciphertext  |-> Option_to_base64(value.ciphertext),
            iv          |-> Option_to_base64(value.iv),
            protected   |-> Option_to_base64(value.protected),
            recipients  |-> IF value.recipients = None THEN None
                            ELSE Some([i \in 1..Len(Unwrap(value.recipients)) |->
                              DecodedRecipient_from_EncodedRecipient(
                                Unwrap(value.recipients)[i])]),
            tag         |-> Option_to_base64(value.tag),
            unprotected |-> value.unprotected ])

\* Ok(decoded), or Panic.
Decoded_from_Encoded(value) == Decoded_struct(value, Decoded_link(value.payload))

(***************************************************************************)
(* Conversion layer: Decoded -> domain.  The TryFrom<Decoded> impls of the *)
(* domain types are the decode direction of the conversion layer: variant  *)
(* by presence of payload, required fields or NotJws / NotJwe, absent      *)
(* collections to empty ones.                                              *)
(***************************************************************************)
Signature_from_DecodedSignature(value) ==
  [ header    |-> IF value.header = None THEN <<>> ELSE Unwrap(value.header),
    protected |-> value.protected,
    signature |-> value.signature ]

Recipient_from_DecodedRecipient(value) ==
  [ encrypted_key |-> value.encrypted_key,
    header        |-> IF value.header = None THEN <<>> ELSE Unwrap(value.header) ]

JsonWebSignature_try_from_Decoded(value) ==
  IF value.payload = None \/ value.link = None THEN Err(<<"NotJws">>)
  ELSE Ok([ link       |-> Unwrap(value.link),
            payload    |-> Unwrap(value.payload),
            signatures |-> IF value.signatures = None THEN <<>>
                           ELSE [i \in 1..Len(Unwrap(value.signatures)) |->
                                   Signature_from_DecodedSignature(
                                     Unwrap(value.signatures)[i])] ])

JsonWebEncryption_try_from_Decoded(value) ==
  IF \/ value.ciphertext = None
     \/ value.iv = None
     \/ value.protected = None
     \/ value.tag = None
  THEN Err(<<"NotJwe">>)
  ELSE Ok([ aad         |-> value.aad,
            ciphertext  |-> Unwrap(value.ciphertext),
            iv          |-> Unwrap(value.iv),
            protected   |-> Unwrap(value.protected),
            recipients  |-> IF value.recipients = None THEN <<>>
                            ELSE [i \in 1..Len(Unwrap(value.recipients)) |->
                                    Recipient_from_DecodedRecipient(
                                      Unwrap(value.recipients)[i])],
            tag         |-> Unwrap(value.tag),
            unprotected |-> IF value.unprotected = None THEN <<>>
                            ELSE Unwrap(value.unprotected) ])

\* Result::map(Jose::Signature), Result::map(Jose::Encryption)
Jose_variant(variant, r) ==
  IF IsErr(r) THEN r ELSE Ok(<<variant, r[2]>>)

Jose_try_from_Decoded(value) ==
  IF value.payload # None
  THEN Jose_variant("Signature", JsonWebSignature_try_from_Decoded(value))
  ELSE Jose_variant("Encryption", JsonWebEncryption_try_from_Decoded(value))

\* The conversions from Encoded go through Decoded; d is the outcome of
\* Decoded::from(encoded), a panic there unwinds through the conversion.
Jose_try_from_Encoded(d) ==
  IF d = Panic THEN Panic ELSE Jose_try_from_Decoded(d[2])

JsonWebSignature_try_from_Encoded(d) ==
  IF d = Panic THEN Panic ELSE JsonWebSignature_try_from_Decoded(d[2])

JsonWebEncryption_try_from_Encoded(d) ==
  IF d = Panic THEN Panic ELSE JsonWebEncryption_try_from_Decoded(d[2])

(***************************************************************************)
(* DAG-CBOR serializer.                                                    *)
(***************************************************************************)
\* serialize_map collects the entries and sorts them in canonical order.
RECURSIVE CborSortInsert(_, _)
CborSortInsert(sorted, e) ==
  IF Len(sorted) = 0 THEN <<e>>
  ELSE IF CborKeyLess(e[1], sorted[1][1]) THEN <<e>> \o sorted
  ELSE <<sorted[1]>> \o CborSortInsert(Tail(sorted), e)

RECURSIVE CborSort(_)
CborSort(entries) ==
  IF Len(entries) = 0 THEN <<>>
  ELSE CborSortInsert(CborSort(Tail(entries)), entries[1])

\* Serialize for Ipld: a Map goes through serialize_map, a List through
\* serialize_seq, the scalars are written as they are.
RECURSIVE Ipld_serialize(_)
Ipld_serialize(ipld) ==
  IF ipld[1] = "Map" THEN
    <<"Map", CborSort([i \in 1..Len(ipld[2]) |->
                         <<ipld[2][i][1], Ipld_serialize(ipld[2][i][2])>>])>>
  ELSE IF ipld[1] = "List" THEN
    <<"List", [i \in 1..Len(ipld[2]) |-> Ipld_serialize(ipld[2][i])]>>
  ELSE ipld

\* Serialize for BTreeMap<String, Ipld>
BTreeMap_serialize(m) == Ipld_serialize(<<"Map", m>>)

\* serialize_struct writes the fields in declaration order; a field with
\* skip_serializing_if = "Option::is_none" is left out when it is None.
SkipNone(key, field, item) ==
  IF field = None THEN <<>> ELSE << <<key, item>> >>

EncodedSignature_serialize(sig) ==
  <<"Map",
    SkipNone(K_header, sig.header, BTreeMap_serialize(Unwrap(sig.header)))
    \o SkipNone(K_protected, sig.protected, <<"Bytes", Unwrap(sig.protected)>>)
    \o << <<K_signature, <<"Bytes", sig.signature>>>> >> >>

EncodedRecipient_serialize(r) ==
  <<"Map",
    SkipNone(K_header, r.header, BTreeMap_serialize(Unwrap(r.header)))
    \o SkipNone(K_encrypted_key, r.encrypted_key,
                <<"Bytes", Unwrap(r.encrypted_key)>>) >>

\* Mutant of Encoded_serialize: the fields declared in alphabetical order.
Encoded_serialize_Alphabetical(e) ==
  <<"Map",
    SkipNone(K_aad, e.aad, <<"Bytes", Unwrap(e.aad)>>)
    \o SkipNone(K_ciphertext, e.ciphertext, <<"Bytes", Unwrap(e.ciphertext)>>)
    \o SkipNone(K_iv, e.iv, <<"Bytes", Unwrap(e.iv)>>)
    \o SkipNone(K_payload, e.payload, <<"Bytes", Unwrap(e.payload)>>)
    \o SkipNone(K_protected, e.protected, <<"Bytes", Unwrap(e.protected)>>)
    \o SkipNone(K_recipients, e.recipients,
         <<"List", [i \in 1..Len(Unwrap(e.recipients)) |->
                      EncodedRecipient_serialize(Unwrap(e.recipients)[i])]>>)
    \o SkipNone(K_signatures, e.signatures,
         <<"List", [i \in 1..Len(Unwrap(e.signatures)) |->
                      EncodedSignature_serialize(Unwrap(e.signatures)[i])]>>)
    \o SkipNone(K_tag, e.tag, <<"Bytes", Unwrap(e.tag)>>)
    \o SkipNone(K_unprotected, e.unprotected,
                BTreeMap_serialize(Unwrap(e.unprotected))) >>

Encoded_serialize(e) ==
  <<"Map",
    SkipNone(K_payload, e.payload, <<"Bytes", Unwrap(e.payload)>>)
    \o SkipNone(K_signatures, e.signatures,
         <<"List", [i \in 1..Len(Unwrap(e.signatures)) |->
                      EncodedSignature_serialize(Unwrap(e.signatures)[i])]>>)
    \o SkipNone(K_iv, e.iv, <<"Bytes", Unwrap(e.iv)>>)
    \o SkipNone(K_aad, e.aad, <<"Bytes", Unwrap(e.aad)>>)
    \o SkipNone(K_tag, e.tag, <<"Bytes", Unwrap(e.tag)>>)
    \o SkipNone(K_protected, e.protected, <<"Bytes", Unwrap(e.protected)>>)
    \o SkipNone(K_ciphertext, e.ciphertext, <<"Bytes", Unwrap(e.ciphertext)>>)
    \o SkipNone(K_recipients, e.recipients,
         <<"List", [i \in 1..Len(Unwrap(e.recipients)) |->
                      EncodedRecipient_serialize(Unwrap(e.recipients)[i])]>>)
    \o SkipNone(K_unprotected, e.unprotected,
                BTreeMap_serialize(Unwrap(e.unprotected))) >>

(***************************************************************************)
(* DAG-CBOR deserializer.                                                  *)
(***************************************************************************)
CodecError == Err(<<"Codec">>)

HasDuplicateKey(entries) ==
  \E i, j \in 1..Len(entries) : i < j /\ entries[i][1] = entries[j][1]

\* Deserialize for Ipld: the entries of a map are collected in a BTreeMap.
RECURSIVE Ipld_deserialize(_)
Ipld_map(entries, rs) ==
  IF HasDuplicateKey(entries) THEN CodecError
  ELSE IF FirstErr(rs) # <<>> THEN FirstErr(rs)
  ELSE Ok(<<"Map", BTreeMap_from([i \in 1..Len(entries) |->
                                    <<entries[i][1], rs[i][2]>>])>>)

Ipld_list(r) == IF IsErr(r) THEN r ELSE Ok(<<"List", r[2]>>)

Ipld_deserialize(item) ==
  IF item[1] = "Map" THEN
    Ipld_map(item[2], [i \in 1..Len(item[2]) |-> Ipld_deserialize(item[2][i][2])])
  ELSE IF item[1] = "List" THEN
    Ipld_list(TryCollect([i \in 1..Len(item[2]) |-> Ipld_deserialize(item[2][i])]))
  ELSE Ok(item)

\* Deserialize for Bytes: only a byte string is accepted.
Bytes_deserialize(item) ==
  IF item[1] = "Bytes" THEN Ok(item[2]) ELSE CodecError

\* Deserialize for BTreeMap<String, Ipld>
BTreeMap_entries(r) == IF IsErr(r) THEN r ELSE Ok(r[2][2])

BTreeMap_deserialize(item) ==
  IF item[1] # "Map" THEN CodecError
  ELSE BTreeMap_entries(Ipld_deserialize(item))

\* The values a map gives for a key.
FieldItems(entries, key) ==
  [i \in 1..Cardinality({j \in 1..Len(entries) : entries[j][1] = key}) |->
     entries[CHOOSE j \in 1..Len(entries) :
               /\ entries[j][1] = key
               /\ Cardinality({k \in 1..j : entries[k][1] = key}) = i][2]]

\* An Option field of a derived Deserialize: None when the key is not in
\* the map or its value is null, an error when the key is there twice.
OptionBytes(items) ==
  IF Len(items) = 0 THEN Ok(None)
  ELSE IF Len(items) > 1 THEN CodecError
  ELSE IF items[1] = <<"Null">> THEN Ok(None)
  ELSE SomeOk(Bytes_deserialize(items[1]))

OptionMap(items) ==
  IF Len(items) = 0 THEN Ok(None)
  ELSE IF Len(items) > 1 THEN CodecError
  ELSE IF items[1] = <<"Null">> THEN Ok(None)
  ELSE SomeOk(BTreeMap_deserialize(items[1]))

\* rs: header, protected, signature; signature is not an Option.
EncodedSignature_visit(rs) ==
  IF FirstErr(rs) # <<>> THEN FirstErr(rs)
  ELSE IF rs[3][2] = None THEN CodecError
  ELSE Ok([ header    |-> rs[1][2],
            protected |-> rs[2][2],
            signature |-> Unwrap(rs[3][2]) ])

EncodedSignature_deserialize(item) ==
  IF item[1] # "Map" THEN CodecError
  ELSE EncodedSignature_visit(
         << OptionMap(FieldItems(item[2], K_header)),
            OptionBytes(FieldItems(item[2], K_protected)),
            OptionBytes(FieldItems(item[2], K_signature)) >>)

\* rs: header, encrypted_key
EncodedRecipient_visit(rs) ==
  IF FirstErr(rs) # <<>> THEN FirstErr(rs)
  ELSE Ok([ header        |-> rs[1][2],
            encrypted_key |-> rs[2][2] ])

EncodedRecipient_deserialize(item) ==
  IF item[1] # "Map" THEN CodecError
  ELSE EncodedRecipient_visit(
         << OptionMap(FieldItems(item[2], K_header)),
            OptionBytes(FieldItems(item[2], K_encrypted_key)) >>)

Signatures_deserialize(item) ==
  IF item[1] # "List" THEN CodecError
  ELSE TryCollect([i \in 1..Len(item[2]) |-> EncodedSignature_deserialize(item[2][i])])

Recipients_deserialize(item) ==
  IF item[1] # "List" THEN CodecError
  ELSE TryCollect([i \in 1..Len(item[2]) |-> EncodedRecipient_deserialize(item[2][i])])

OptionSignatures(items) ==
  IF Len(items) = 0 THEN Ok(None)
  ELSE IF Len(items) > 1 THEN CodecError
  ELSE IF items[1] = <<"Null">> THEN Ok(None)
  ELSE SomeOk(Signatures_deserialize(items[1]))

OptionRecipients(items) ==
  IF Len(items) = 0 THEN Ok(None)
  ELSE IF Len(items) > 1 THEN CodecError
  ELSE IF items[1] = <<"Null">> THEN Ok(None)
  ELSE SomeOk(Recipients_deserialize(items[1]))

\* rs: the fields in declaration order.
Encoded_visit(rs) ==
  IF FirstErr(rs) # <<>> THEN FirstErr(rs)
  ELSE Ok([ payload     |-> rs[1][2],
            signatures  |-> rs[2][2],
            iv          |-> rs[3][2],
            aad         |-> rs[4][2],
            tag         |-> rs[5][2],
            protected   |-> rs[6][2],
            ciphertext  |-> rs[7][2],
            recipients  |-> rs[8][2],
            unprotected |-> rs[9][2] ])

\* Deserialize for Encoded: every field is an Option, keys that are not
\* fields of the struct are skipped.
Encoded_deserialize(item) ==
  IF item[1] # "Map" THEN CodecError
  ELSE Encoded_visit(
         << OptionBytes(FieldItems(item[2], K_payload)),
            OptionSignatures(FieldItems(item[2], K_signatures)),
            OptionBytes(FieldItems(item[2], K_iv)),
            OptionBytes(FieldItems(item[2], K_aad)),
            OptionBytes(FieldItems(item[2], K_tag)),
            OptionBytes(FieldItems(item[2], K_protected)),
            OptionBytes(FieldItems(item[2], K_ciphertext)),
            OptionRecipients(FieldItems(item[2], K_recipients)),
            OptionMap(FieldItems(item[2], K_unprotected)) >>)

(***************************************************************************)
(* Codec adapter (lib.rs).  encode returns <<result, written>>: written is *)
(* what the call appended to the writer.                                   *)
(***************************************************************************)
\* `data.try_into()?` then to_writer(writer, &encoded)
Encoded_to_writer(encoded) ==
  IF IsErr(encoded) THEN <<encoded, <<>>>>
  ELSE <<Ok(<<>>), <<Encoded_serialize(encoded[2])>>>>

DagJoseCodec_encode_Jose(data) == Encoded_to_writer(Encoded_try_from_Jose(data))

\* `from_reader(reader)?` then encoded.try_into()
Jose_try_into(encoded) ==
  IF IsErr(encoded) THEN encoded
  ELSE Jose_try_from_Encoded(Decoded_from_Encoded(encoded[2]))

JsonWebSignature_try_into(encoded) ==
  IF IsErr(encoded) THEN encoded
  ELSE JsonWebSignature_try_from_Encoded(Decoded_from_Encoded(encoded[2]))

JsonWebEncryption_try_into(encoded) ==
  IF IsErr(encoded) THEN encoded
  ELSE JsonWebEncryption_try_from_Encoded(Decoded_from_Encoded(encoded[2]))

DagJoseCodec_decode_Jose(bytes) == Jose_try_into(Encoded_deserialize(bytes))

DagJoseCodec_decode_JsonWebSignature(bytes) ==
  JsonWebSignature_try_into(Encoded_deserialize(bytes))

DagJoseCodec_decode_JsonWebEncryption(bytes) ==
  JsonWebEncryption_try_into(Encoded_deserialize(bytes))

DagJoseCodec_encode_Ipld(data) == <<Ok(<<>>), <<Ipld_serialize(data)>>>>

DagJoseCodec_decode_Ipld(bytes) == Ipld_deserialize(bytes)

(***************************************************************************)
(* DAG-JSON (lib.rs, the impls for DagJsonCodec).  The items of the text   *)
(* are the ones of the binary format plus <<"Null">> and <<"Link", cid>>;  *)
(* a base64url text is a <<"String", text>> item.  encode serializes the   *)
(* domain value with its derived Serialize; decode reads an Encoded and    *)
(* converts it, as the binary decode does.                                 *)
(***************************************************************************)
OptionString(o) == IF o = None THEN <<"Null">> ELSE <<"String", Unwrap(o)>>

\* skip_serializing_if = "BTreeMap::is_empty" / "Vec::is_empty"
SkipEmpty(key, field, item) ==
  IF field = <<>> THEN <<>> ELSE << <<key, item>> >>

Signature_serialize(value) ==
  <<"Map",
    SkipEmpty(K_header, value.header, <<"Map", value.header>>)
    \o << <<K_protected, OptionString(value.protected)>>,
          <<K_signature, <<"String", value.signature>>>> >> >>

Recipient_serialize(value) ==
  <<"Map",
    << <<K_encrypted_key, OptionString(value.encrypted_key)>> >>
    \o SkipEmpty(K_header, value.header, <<"Map", value.header>>) >>

JsonWebSignature_serialize(value) ==
  <<"Map",
    << <<K_link, <<"Link", value.link>>>>,
       <<K_payload, <<"String", value.payload>>>>,
       <<K_signatures, <<"List", [i \in 1..Len(value.signatures) |->
                                    Signature_serialize(value.signatures[i])]>>>> >> >>

JsonWebEncryption_serialize(value) ==
  <<"Map",
    SkipNone(K_aad, value.aad, OptionString(value.aad))
    \o << <<K_ciphertext, <<"String", value.ciphertext>>>>,
          <<K_iv, <<"String", value.iv>>>>,
          <<K_protected, <<"String", value.protected>>>> >>
    \o SkipEmpty(K_recipients, value.recipients,
                 <<"List", [i \in 1..Len(value.recipients) |->
                              Recipient_serialize(value.recipients[i])]>>)
    \o << <<K_tag, <<"String", value.tag>>>> >>
    \o SkipEmpty(K_unprotected, value.unprotected, <<"Map", value.unprotected>>) >>

DagJsonCodec_encode_Jose(data) ==
  IF data[1] = "Signature"
  THEN <<Ok(<<>>), <<JsonWebSignature_serialize(data[2])>>>>
  ELSE <<Ok(<<>>), <<JsonWebEncryption_serialize(data[2])>>>>

\* `serde_ipld_dagjson::from_reader(reader)?`: a failure is a JsonDecode.
JsonDecodeError(r) == IF IsErr(r) THEN Err(<<"JsonDecode">>) ELSE r

DagJsonCodec_decode_Jose(text) ==
  Jose_try_into(JsonDecodeError(Encoded_deserialize(text)))

DagJsonCodec_decode_JsonWebSignature(text) ==
  JsonWebSignature_try_into(JsonDecodeError(Encoded_deserialize(text)))

DagJsonCodec_decode_JsonWebEncryption(text) ==
  JsonWebEncryption_try_into(JsonDecodeError(Encoded_deserialize(text)))

\* The types a DagJsonCodec decode call builds on its way to the result.
DagJsonCodec_decode_via == {"Encoded", "Decoded"}

(***************************************************************************)
(* The generic tree value of a JWS / JWE as the round-trip tests build it: *)
(* the same fields, the text fields as the bytes they encode, no link;     *)
(* the optional members are present under the conditions of the            *)
(* From<&T> for Ipld impls.                                                *)
(***************************************************************************)
RawBytes(text) == <<"Bytes", Base64Decode(text)[2]>>

Ipld_from_Signature(value) ==
  <<"Map", BTreeMap_from(
    (IF value.header # <<>> THEN << <<K_header, <<"Map", value.header>>>> >> ELSE <<>>)
    \o (IF value.protected # None
        THEN << <<K_protected, RawBytes(Unwrap(value.protected))>> >> ELSE <<>>)
    \o << <<K_signature, RawBytes(value.signature)>> >>)>>

Ipld_from_Recipient(value) ==
  <<"Map", BTreeMap_from(
    (IF value.encrypted_key # None
     THEN << <<K_encrypted_key, RawBytes(Unwrap(value.encrypted_key))>> >> ELSE <<>>)
    \o (IF value.header # <<>> THEN << <<K_header, <<"Map", value.header>>>> >> ELSE <<>>))>>

Ipld_from_JsonWebSignature(value) ==
  <<"Map", BTreeMap_from(
    << <<K_payload, RawBytes(value.payload)>>,
       <<K_signatures, <<"List", [i \in 1..Len(value.signatures) |->
                                    Ipld_from_Signature(value.signatures[i])]>>>> >>)>>

Ipld_from_JsonWebEncryption(value) ==
  <<"Map", BTreeMap_from(
    (IF value.aad # None THEN << <<K_aad, RawBytes(Unwrap(value.aad))>> >> ELSE <<>>)
    \o << <<K_ciphertext, RawBytes(value.ciphertext)>>,
          <<K_iv, RawBytes(value.iv)>>,
          <<K_protected, RawBytes(value.protected)>> >>
    \o (IF value.recipients # <<>>
        THEN << <<K_recipients, <<"List", [i \in 1..Len(value.recipients) |->
                                  Ipld_from_Recipient(value.recipients[i])]>>>> >>
        ELSE <<>>)
    \o << <<K_tag, RawBytes(value.tag)>> >>
    \o (IF value.unprotected # <<>>
        THEN << <<K_unprotected, <<"Map", value.unprotected>>>> >> ELSE <<>>))>>

Ipld_from_Jose(value) ==
  IF value[1] = "Signature" THEN Ipld_from_JsonWebSignature(value[2])
  ELSE Ipld_from_JsonWebEncryption(value[2])

(***************************************************************************)
(* Inputs.                                                                 *)
(***************************************************************************)
SeqsUpTo(S, n) == UNION {[1..k -> S] : k \in 0..n}

Reverse(s) == [i \in 1..Len(s) |-> s[Len(s) + 1 - i]]

\* The order of insertion the caller uses: as listed, or the reverse.
InOrder(s, reversed) == IF reversed THEN Reverse(s) ELSE s

\* base64url texts: "AVUAAA" is the identifier 01 55 00 00, "AXEAAAc" is the
\* identifier 01 71 00 00 followed by the byte 07, "QQ" is the byte 41.
\* The other texts are rejected by the decoder, each for its own reason.
CidText == <<0, 21, 20, 0, 0, 0>>
CidTextTrailing == <<0, 23, 4, 0, 0, 0, 28>>
TextQQ == <<16, 16>>

Cids == { CidTryFrom(<<1, 85, 0, 0>>)[2], CidTryFrom(<<1, 113, 0, 0>>)[2] }

PayloadTexts == { CidText, CidTextTrailing, TextQQ, <<>>, <<16, 17>> }

\* Entries the caller inserts in header maps: "a10" -> 1, "k0" -> "v0",
\* "k1" -> 1.
HeaderEntries ==
  { << <<97, 49, 48>>, <<"Integer", 1>> >>,
    << <<107, 48>>, <<"String", <<118, 48>>>> >>,
    << <<107, 49>>, <<"Integer", 1>> >> }

\* The orders in which a caller can insert up to n entries of distinct keys.
InsertionOrders(n) ==
  { s \in SeqsUpTo(HeaderEntries, n) :
      \A i, j \in 1..Len(s) : i # j => s[i][1] # s[j][1] }

\* A template is a domain value whose maps are still the sequence of
\* insertions that builds them.
SignatureTemplates ==
  [ header    : { <<>>, << << <<107, 49>>, <<"Integer", 1>> >>,
                           << <<107, 48>>, <<"String", <<118, 48>>>> >> >> },
    protected : { None, Some(TextQQ), Some(<<65>>) },
    signature : { TextQQ, <<0>> } ]

RecipientTemplates ==
  [ encrypted_key : { None, Some(TextQQ), Some(<<16, 19>>) },
    header        : { <<>>, << << <<107, 49>>, <<"Integer", 1>> >> >> } ]

JwsTemplates ==
  [ link       : Cids,
    payload    : PayloadTexts,
    signatures : SeqsUpTo(SignatureTemplates, MaxSigs) ]

JweTemplates ==
  [ aad         : { None, Some(TextQQ), Some(<<64>>) },
    ciphertext  : { TextQQ, <<16, 17>> },
    iv          : { <<>>, TextQQ, <<0>> },
    protected   : { TextQQ, <<65>> },
    recipients  : SeqsUpTo(RecipientTemplates, MaxRecips),
    tag         : { TextQQ, <<16, 18>> },
    unprotected : InsertionOrders(MaxHeader) ]

JoseTemplates ==
  { <<"Signature", t>> : t \in JwsTemplates }
  \cup { <<"Encryption", t>> : t \in JweTemplates }

\* The domain value of a template: every map is built by inserting its
\* entries, as listed or in the reverse order.
Build(t, reversed) ==
  IF t[1] = "Signature" THEN
    <<"Signature",
      [ link       |-> t[2].link,
        payload    |-> t[2].payload,
        signatures |-> [i \in 1..Len(t[2].signatures) |->
          [ header    |-> BTreeMap_from(InOrder(t[2].signatures[i].header, reversed)),
            protected |-> t[2].signatures[i].protected,
            signature |-> t[2].signatures[i].signature ]] ]>>
  ELSE
    <<"Encryption",
      [ aad         |-> t[2].aad,
        ciphertext  |-> t[2].ciphertext,
        iv          |-> t[2].iv,
        protected   |-> t[2].protected,
        recipients  |-> [i \in 1..Len(t[2].recipients) |->
          [ encrypted_key |-> t[2].recipients[i].encrypted_key,
            header        |-> BTreeMap_from(InOrder(t[2].recipients[i].header, reversed)) ]],
        tag         |-> t[2].tag,
        unprotected |-> BTreeMap_from(InOrder(t[2].unprotected, reversed)) ]>>

\* The value with the link of a JWS replaced; a JWE has no link.
WithLink(v, c) ==
  IF v[1] = "Signature" THEN <<"Signature", [v[2] EXCEPT !.link = c]>> ELSE v

\* Blocks that do not come from this encoder: any subset of the nine keys,
\* in canonical order.
WireEntry(key, o) == IF o = None THEN <<>> ELSE << <<key, Unwrap(o)>> >>

WireSignature ==
  <<"Map", << <<K_protected, <<"Bytes", <<65>>>>>>,
              <<K_signature, <<"Bytes", <<65>>>>>> >>>>

WireRecipient == <<"Map", << <<K_encrypted_key, <<"Bytes", <<65>>>>>> >>>>

WireBlocks ==
  { <<"Map",
      WireEntry(K_iv, iv) \o WireEntry(K_aad, aad) \o WireEntry(K_tag, tag)
      \o WireEntry(K_payload, payload) \o WireEntry(K_protected, protected)
      \o WireEntry(K_ciphertext, ciphertext) \o WireEntry(K_recipients, recipients)
      \o WireEntry(K_signatures, signatures)
      \o WireEntry(K_unprotected, unprotected)>> :
      iv \in { None, Some(<<"Bytes", <<>>>>), Some(<<"Bytes", <<65>>>>) },
      aad \in { None, Some(<<"Bytes", <<65>>>>) },
      tag \in { None, Some(<<"Bytes", <<65>>>>) },
      payload \in { None, Some(<<"Bytes", <<1, 85, 0, 0>>>>),
                    Some(<<"Bytes", <<1, 113, 0, 0, 7>>>>),
                    Some(<<"Bytes", <<65>>>>), Some(<<"String", <<118, 48>>>>) },
      protected \in { None, Some(<<"Bytes", <<65>>>>) },
      ciphertext \in { None, Some(<<"Bytes", <<65>>>>) },
      recipients \in { None, Some(<<"List", <<>>>>), Some(<<"List", <<WireRecipient>>>>) },
      signatures \in { None, Some(<<"List", <<>>>>), Some(<<"List", <<WireSignature>>>>) },
      unprotected \in { None, Some(<<"Map", << << <<107, 49>>, <<"Integer", 1>> >> >>>>) } }

(***************************************************************************)
(* State.  One behaviour is one use of the codec: either a caller builds a *)
(* value and runs the steps of tests::assert_roundtrip on it, or a block   *)
(* arrives from outside and is decoded.                                    *)
(***************************************************************************)
VARIABLES
  pc,          \* the step the caller is at
  data,        \* the Jose value the caller built
  twin,        \* the same value, its maps built in the reverse order
  encRes,      \* result of encode(writer, data)
  writer,      \* bytes written by encode(writer, data)
  twinWriter,  \* bytes written by encode(writer, twin)
  other,       \* the same value again, its link chosen independently
  otherWriter, \* bytes written by encode(writer, other)
  ipldWriter,  \* bytes written by encode(writer, ipld of data)
  jsonWriter,  \* text written by DagJsonCodec::encode(writer, data)
  decJson,     \* results of DagJsonCodec::decode of that text: <<as Jose,
               \* as the type of the variant of data>>
  jsonVia,     \* the types the DagJsonCodec decode calls went through
  block,       \* bytes handed to decode
  origin,      \* "encoded": block is what encode wrote; "external" otherwise
  decIpld,     \* result of decode::<Ipld>(block)
  decJose,     \* result of decode::<Jose>(block)
  decJws,      \* result of decode::<JsonWebSignature>(block)
  decJwe,      \* result of decode::<JsonWebEncryption>(block)
  reWriter     \* bytes written by encode(writer, the decoded Jose value)

vars == <<pc, data, twin, encRes, writer, twinWriter, other, otherWriter,
          ipldWriter, jsonWriter, decJson, jsonVia, block, origin, decIpld,
          decJose, decJws, decJwe, reWriter>>

NoResult == <<"NoResult">>

Init ==
  /\ pc = "idle"
  /\ data = None
  /\ twin = None
  /\ encRes = NoResult
  /\ writer = <<>>
  /\ twinWriter = <<>>
  /\ other = None
  /\ otherWriter = <<>>
  /\ ipldWriter = <<>>
  /\ jsonWriter = <<>>
  /\ decJson = NoResult
  /\ jsonVia = {}
  /\ block = None
  /\ origin = "none"
  /\ decIpld = NoResult
  /\ decJose = NoResult
  /\ decJws = NoResult
  /\ decJwe = NoResult
  /\ reWriter = <<>>

\* The caller builds a value.
Construct ==
  /\ pc = "idle"
  /\ \E t \in JoseTemplates :
       /\ data' = Some(Build(t, FALSE))
       /\ twin' = Some(Build(t, TRUE))
  /\ pc' = "constructed"
  /\ UNCHANGED <<jsonWriter, decJson, jsonVia, other, otherWriter, encRes,
                 writer, twinWriter, ipldWriter, block, origin, decIpld,
                 decJose, decJws, decJwe, reWriter>>

\* <DagJoseCodec as Codec<Jose>>::encode(writer, data)
EncodeJose ==
  /\ pc = "constructed"
  /\ \E r \in {DagJoseCodec_encode_Jose(Unwrap(data))} :
       /\ encRes' = r[1]
       /\ writer' = writer \o r[2]
  /\ pc' = "encoded"
  /\ UNCHANGED <<jsonWriter, decJson, jsonVia, other, otherWriter, data,
                 twin, twinWriter, ipldWriter, block, origin, decIpld,
                 decJose, decJws, decJwe, reWriter>>

\* The second, independent encode call, on the twin.
EncodeTwin ==
  /\ pc = "encoded"
  /\ twinWriter' = twinWriter \o DagJoseCodec_encode_Jose(Unwrap(twin))[2]
  /\ pc' = "twin_encoded"
  /\ UNCHANGED <<jsonWriter, decJson, jsonVia, other, otherWriter, data,
                 twin, encRes, writer, ipldWriter, block, origin, decIpld,
                 decJose, decJws, decJwe, reWriter>>

\* A third encode call, on a value that differs from data at most in the
\* link the caller supplied.
EncodeOther ==
  /\ pc = "twin_encoded"
  /\ \E c \in Cids :
       /\ other' = Some(WithLink(Unwrap(data), c))
       /\ otherWriter' = otherWriter
            \o DagJoseCodec_encode_Jose(WithLink(Unwrap(data), c))[2]
  /\ pc' = "other_encoded"
  /\ UNCHANGED <<jsonWriter, decJson, jsonVia, data, twin, encRes, writer,
                 twinWriter, ipldWriter, block, origin, decIpld, decJose,
                 decJws, decJwe, reWriter>>

\* <DagJsonCodec as Codec<Jose>>::encode(writer, data)
EncodeJson ==
  /\ pc = "other_encoded"
  /\ jsonWriter' = jsonWriter \o DagJsonCodec_encode_Jose(Unwrap(data))[2]
  /\ pc' = "json_encoded"
  /\ UNCHANGED <<decJson, jsonVia, other, otherWriter, data, twin, encRes,
                 writer, twinWriter, ipldWriter, block, origin, decIpld,
                 decJose, decJws, decJwe, reWriter>>

\* <DagJsonCodec as Codec<Jose>>::decode(text), and the decode of the same
\* text as the type of the variant that was encoded.
DecodeJson ==
  /\ pc = "json_encoded"
  /\ decJson' =
       << DagJsonCodec_decode_Jose(jsonWriter[1]),
          IF Unwrap(data)[1] = "Signature"
          THEN DagJsonCodec_decode_JsonWebSignature(jsonWriter[1])
          ELSE DagJsonCodec_decode_JsonWebEncryption(jsonWriter[1]) >>
  /\ jsonVia' = jsonVia \cup DagJsonCodec_decode_via
  /\ pc' = "json_decoded"
  /\ UNCHANGED <<jsonWriter, other, otherWriter, data, twin, encRes,
                 writer, twinWriter, ipldWriter, block, origin, decIpld,
                 decJose, decJws, decJwe, reWriter>>

\* <DagJoseCodec as Codec<Ipld>>::encode(writer, ipld), for the tree of a
\* value whose texts are base64url.
EncodeIpld ==
  /\ pc = "json_decoded"
  /\ IsOk(encRes)
  /\ ipldWriter' = ipldWriter \o DagJoseCodec_encode_Ipld(Ipld_from_Jose(Unwrap(data)))[2]
  /\ pc' = "ipld_encoded"
  /\ UNCHANGED <<jsonWriter, decJson, jsonVia, other, otherWriter, data,
                 twin, encRes, writer, twinWriter, block, origin, decIpld,
                 decJose, decJws, decJwe, reWriter>>

\* decode_from_slice(&bytes): the bytes encode wrote are read back.
Feed ==
  /\ pc = "ipld_encoded"
  /\ block' = Some(writer[1])
  /\ origin' = "encoded"
  /\ pc' = "have_block"
  /\ UNCHANGED <<jsonWriter, decJson, jsonVia, other, otherWriter, data,
                 twin, encRes, writer, twinWriter, ipldWriter, decIpld,
                 decJose, decJws, decJwe, reWriter>>

\* A block arrives from outside.
Receive ==
  /\ pc = "idle"
  /\ \E w \in WireBlocks : block' = Some(w)
  /\ origin' = "external"
  /\ pc' = "have_block"
  /\ UNCHANGED <<jsonWriter, decJson, jsonVia, other, otherWriter, data,
                 twin, encRes, writer, twinWriter, ipldWriter, decIpld,
                 decJose, decJws, decJwe, reWriter>>

\* <DagJoseCodec as Codec<Ipld>>::decode(block)
DecodeIpld ==
  /\ pc = "have_block"
  /\ decIpld' = DagJoseCodec_decode_Ipld(Unwrap(block))
  /\ pc' = "ipld_decoded"
  /\ UNCHANGED <<jsonWriter, decJson, jsonVia, other, otherWriter, data,
                 twin, encRes, writer, twinWriter, ipldWriter, block,
                 origin, decJose, decJws, decJwe, reWriter>>

\* <DagJoseCodec as Codec<Jose>>::decode(block)
DecodeJose ==
  /\ pc = "ipld_decoded"
  /\ decJose' = DagJoseCodec_decode_Jose(Unwrap(block))
  /\ pc' = "jose_decoded"
  /\ UNCHANGED <<jsonWriter, decJson, jsonVia, other, otherWriter, data,
                 twin, encRes, writer, twinWriter, ipldWriter, block,
                 origin, decIpld, decJws, decJwe, reWriter>>

\* <DagJoseCodec as Codec<JsonWebSignature>>::decode(block)
DecodeJws ==
  /\ pc = "jose_decoded"
  /\ decJws' = DagJoseCodec_decode_JsonWebSignature(Unwrap(block))
  /\ pc' = "jws_decoded"
  /\ UNCHANGED <<jsonWriter, decJson, jsonVia, other, otherWriter, data,
                 twin, encRes, writer, twinWriter, ipldWriter, block,
                 origin, decIpld, decJose, decJwe, reWriter>>

\* <DagJoseCodec as Codec<JsonWebEncryption>>::decode(block)
DecodeJwe ==
  /\ pc = "jws_decoded"
  /\ decJwe' = DagJoseCodec_decode_JsonWebEncryption(Unwrap(block))
  /\ pc' = "done"
  /\ UNCHANGED <<jsonWriter, decJson, jsonVia, other, otherWriter, data,
                 twin, encRes, writer, twinWriter, ipldWriter, block,
                 origin, decIpld, decJose, decJws, reWriter>>

\* encode_to_vec(&jose), for the value decode::<Jose>(block) returned.
ReEncode ==
  /\ pc = "done"
  /\ IsOk(decJose)
  /\ reWriter' = reWriter \o DagJoseCodec_encode_Jose(decJose[2])[2]
  /\ pc' = "reencoded"
  /\ UNCHANGED <<jsonWriter, decJson, jsonVia, other, otherWriter, data,
                 twin, encRes, writer, twinWriter, ipldWriter, block, origin,
                 decIpld, decJose, decJws, decJwe>>

Next ==
  \/ Construct
  \/ EncodeJose
  \/ EncodeTwin
  \/ EncodeOther
  \/ EncodeJson
  \/ DecodeJson
  \/ EncodeIpld
  \/ Feed
  \/ Receive
  \/ DecodeIpld
  \/ DecodeJose
  \/ DecodeJws
  \/ DecodeJwe
  \/ ReEncode

Spec == Init /\ [][Next]_vars

(***************************************************************************)
(* Vocabulary of the properties.                                           *)
(***************************************************************************)
WireKeys(item) == { item[2][i][1] : i \in 1..Len(item[2]) }

WireGet(item, key) ==
  item[2][CHOOSE i \in 1..Len(item[2]) : item[2][i][1] = key][2]

JwsGroup == { K_payload, K_signatures }

JweGroup == { K_iv, K_aad, K_tag, K_protected, K_ciphertext, K_recipients,
              K_unprotected }

\* The base64url texts of a Jose value, in the order the conversion to the
\* wire model reads them.
TextFields(v) ==
  LET OptText(o) == IF o = None THEN <<>> ELSE <<Unwrap(o)>>
      RECURSIVE SigTexts(_)
      SigTexts(sigs) ==
        IF Len(sigs) = 0 THEN <<>>
        ELSE OptText(sigs[1].protected) \o <<sigs[1].signature>>
             \o SigTexts(Tail(sigs))
      RECURSIVE RecipientTexts(_)
      RecipientTexts(rs) ==
        IF Len(rs) = 0 THEN <<>>
        ELSE OptText(rs[1].encrypted_key) \o RecipientTexts(Tail(rs))
  IN  IF v[1] = "Signature"
      THEN <<v[2].payload>> \o SigTexts(v[2].signatures)
      ELSE OptText(v[2].aad) \o <<v[2].ciphertext, v[2].iv, v[2].protected>>
           \o RecipientTexts(v[2].recipients) \o <<v[2].tag>>

BadTexts(v) == { i \in 1..Len(TextFields(v)) : IsErr(Base64Decode(TextFields(v)[i])) }

\* A valid Jose value: every text is base64url and the link of a JWS is the
\* identifier its payload holds.
ValidJose(v) ==
  /\ BadTexts(v) = {}
  /\ v[1] = "Signature" =>
       CidTryFrom(Base64Decode(v[2].payload)[2]) = Ok(v[2].link)

StrictlyAscending(entries) ==
  \A i \in 1..(Len(entries) - 1) : CborKeyLess(entries[i][1], entries[i + 1][1])

Written == writer # <<>>

(***************************************************************************)
(* C1.  Round trip of the domain model: for every valid Jose value v,      *)
(* decoding the bytes DagJoseCodec wrote for v gives a value equal to v.   *)
(***************************************************************************)
C1_RoundTrip ==
  (origin = "encoded" /\ decJose # NoResult /\ ValidJose(Unwrap(data)))
    => decJose = Ok(Unwrap(data))

C1_Witness ==
  /\ origin = "encoded"
  /\ ValidJose(Unwrap(data))
  /\ decJose = Ok(Unwrap(data))
  /\ Unwrap(data)[1] = "Encryption"
  /\ Unwrap(data)[2].aad = None
  /\ Unwrap(data)[2].unprotected = <<>>
  /\ Len(Unwrap(data)[2].recipients) > 0
  /\ Unwrap(data)[2].recipients[1].encrypted_key = None
  /\ Unwrap(data)[2].recipients[1].header = <<>>

(***************************************************************************)
(* C2.  Every JsonWebSignature that decode produces has link equal to the  *)
(* content identifier parsed from the raw payload bytes of the block and   *)
(* payload equal to the base64url text of those same bytes: link is the    *)
(* identifier of the bytes payload decodes to.                             *)
(***************************************************************************)
LinkMatchesPayload(r) ==
  (IsOk(r) /\ r[2][1] = "Signature") =>
    LET raw == WireGet(Unwrap(block), K_payload)[2]
        jws == r[2][2]
    IN  /\ K_payload \in WireKeys(Unwrap(block))
        /\ jws.payload = Base64Encode(raw)
        /\ Base64Decode(jws.payload) = Ok(raw)
        /\ Ok(jws.link) = CidTryFrom(raw)

C2_LinkFromPayload ==
  /\ decJose # NoResult => LinkMatchesPayload(decJose)
  /\ (decJws # NoResult /\ IsOk(decJws)) => LinkMatchesPayload(Ok(<<"Signature", decJws[2]>>))

C2_Witness ==
  /\ origin = "external"
  /\ IsOk(decJose)
  /\ decJose[2][1] = "Signature"
  /\ IsOk(decJws)
  /\ decJws[2].link = CidTryFrom(<<1, 85, 0, 0>>)[2]
  /\ decJws[2].payload = CidText

(***************************************************************************)
(* C3.  Decoding a block whose payload is a byte string that is not a      *)
(* content identifier returns the InvalidCid error as a value: no panic,   *)
(* no Jose value.                                                          *)
(***************************************************************************)
PayloadIsNotCid ==
  /\ block # None
  /\ K_payload \in WireKeys(Unwrap(block))
  /\ WireGet(Unwrap(block), K_payload)[1] = "Bytes"
  /\ IsErr(CidTryFrom(WireGet(Unwrap(block), K_payload)[2]))

C3_InvalidCidReturned ==
  (decJose # NoResult /\ PayloadIsNotCid) => decJose = Err(<<"InvalidCid">>)

\* The payload is the single byte 41 and the decode call panics.
C3_Witness ==
  /\ origin = "external"
  /\ PayloadIsNotCid
  /\ WireKeys(Unwrap(block)) = {K_payload}
  /\ decJose = Panic

(***************************************************************************)
(* C4.  Decoding to a Jose value fails with an error, and yields no value, *)
(* whenever the block has keys of both the JWS group and the JWE group,    *)
(* and whenever it has keys of neither group.                              *)
(***************************************************************************)
MixedOrNeither ==
  LET keys == WireKeys(Unwrap(block))
  IN  (keys \cap JwsGroup # {}) <=> (keys \cap JweGroup # {})

C4_VariantExclusivity ==
  (decJose # NoResult /\ MixedOrNeither) => IsErr(decJose)

\* A block with payload and iv decodes to a JWS.
C4_Witness ==
  /\ origin = "external"
  /\ WireKeys(Unwrap(block)) = {K_payload, K_iv}
  /\ IsOk(decJose)
  /\ decJose[2][1] = "Signature"

(***************************************************************************)
(* C5.  Encoding a Jose value one of whose base64url texts is not valid    *)
(* unpadded URL-safe base64 fails with InvalidBase64Url; the error is the  *)
(* one of the first bad text, and nothing is written to the writer.        *)
(***************************************************************************)
C5_InvalidBase64Url ==
  (encRes # NoResult /\ BadTexts(Unwrap(data)) # {}) =>
    LET v == Unwrap(data)
        first == CHOOSE i \in BadTexts(v) : \A j \in BadTexts(v) : i <= j
    IN  /\ IsErr(encRes)
        /\ encRes[2][1] = "InvalidBase64Url"
        /\ encRes = Base64Decode(TextFields(v)[first])
        /\ writer = <<>>

C5_Witness ==
  /\ encRes # NoResult
  /\ Cardinality(BadTexts(Unwrap(data))) >= 2
  /\ IsErr(encRes)
  /\ writer = <<>>

(***************************************************************************)
(* C6.  The keys the encoder emits at each map level (the top-level map,   *)
(* each signature, each recipient) are, in emission order, strictly        *)
(* ascending in the canonical order: shorter key first, keys of equal      *)
(* length in lexicographic order.                                          *)
(***************************************************************************)
C6_CanonicalKeyOrder ==
  Written =>
    LET top == writer[1]
        Members(key) ==
          IF key \in WireKeys(top) THEN WireGet(top, key)[2] ELSE <<>>
    IN  /\ StrictlyAscending(top[2])
        /\ \A i \in 1..Len(Members(K_signatures)) :
             StrictlyAscending(Members(K_signatures)[i][2])
        /\ \A i \in 1..Len(Members(K_recipients)) :
             StrictlyAscending(Members(K_recipients)[i][2])

C6_Witness ==
  /\ Written
  /\ Len(writer[1][2]) = 7
  /\ Len(WireGet(writer[1], K_recipients)[2][1][2]) = 2

(***************************************************************************)
(* C7.  Encoding a JWS or JWE with DagJoseCodec writes exactly the bytes   *)
(* that encoding the generic tree value with the same fields (as raw       *)
(* bytes, without link) writes, and decoding those bytes as a generic tree *)
(* value gives that tree value back.                                       *)
(***************************************************************************)
C7_CrossModel ==
  /\ ipldWriter # <<>> => ipldWriter = writer
  /\ (origin = "encoded" /\ decIpld # NoResult) =>
       decIpld = Ok(Ipld_from_Jose(Unwrap(data)))

\* A JWS without signatures: the tree is written with a signatures key, the
\* JWS without one.
C7_Witness ==
  /\ ipldWriter # <<>>
  /\ Unwrap(data)[1] = "Signature"
  /\ Unwrap(data)[2].signatures = <<>>
  /\ K_signatures \in WireKeys(ipldWriter[1])
  /\ K_signatures \notin WireKeys(writer[1])

C9_Minimality ==
  Written =>
    LET v == Unwrap(data)
        top == writer[1]
    IN  /\ v[1] = "Encryption" =>
             /\ v[2].recipients = <<>> => K_recipients \notin WireKeys(top)
             /\ v[2].unprotected = <<>> => K_unprotected \notin WireKeys(top)
             /\ \A i \in 1..Len(v[2].recipients) :
                  v[2].recipients[i].header = <<>> =>
                    K_header \notin WireKeys(WireGet(top, K_recipients)[2][i])
        /\ v[1] = "Signature" =>
             \A i \in 1..Len(v[2].signatures) :
               v[2].signatures[i].header = <<>> =>
                 K_header \notin WireKeys(WireGet(top, K_signatures)[2][i])
        /\ \A i \in 1..Len(top[2]) :
             top[2][i][1] \in {K_recipients, K_unprotected} => Len(top[2][i][2][2]) > 0

C9_Witness ==
  /\ Written
  /\ Unwrap(data)[1] = "Encryption"
  /\ Unwrap(data)[2].recipients = <<>>
  /\ Unwrap(data)[2].unprotected = <<>>
  /\ WireKeys(writer[1]) \cap {K_recipients, K_unprotected} = {}

(***************************************************************************)
(* C10.  Decoding a block without payload (the JWE path) fails with NotJwe *)
(* whenever one of ciphertext, iv, protected, tag is absent; when the four *)
(* are present it succeeds, aad stays optional, and absent recipients /    *)
(* unprotected become empty collections.                                   *)
(***************************************************************************)
JweRequired == { K_ciphertext, K_iv, K_protected, K_tag }

C10_JwePath ==
  (decJwe # NoResult /\ K_payload \notin WireKeys(Unwrap(block))) =>
    LET b == Unwrap(block)
        keys == WireKeys(b)
    IN  IF ~(JweRequired \subseteq keys)
        THEN /\ decJwe = Err(<<"NotJwe">>)
             /\ decJose = Err(<<"NotJwe">>)
        ELSE /\ IsOk(decJwe)
             /\ decJose = Ok(<<"Encryption", decJwe[2]>>)
             /\ decJwe[2].ciphertext = Base64Encode(WireGet(b, K_ciphertext)[2])
             /\ decJwe[2].iv = Base64Encode(WireGet(b, K_iv)[2])
             /\ decJwe[2].protected = Base64Encode(WireGet(b, K_protected)[2])
             /\ decJwe[2].tag = Base64Encode(WireGet(b, K_tag)[2])
             /\ decJwe[2].aad = IF K_aad \in keys
                                THEN Some(Base64Encode(WireGet(b, K_aad)[2]))
                                ELSE None
             /\ K_recipients \notin keys => decJwe[2].recipients = <<>>
             /\ K_unprotected \notin keys => decJwe[2].unprotected = <<>>

C10_Witness ==
  /\ origin = "external"
  /\ IsOk(decJwe)
  /\ WireKeys(Unwrap(block)) = JweRequired
  /\ decJwe[2].aad = None
  /\ decJwe[2].recipients = <<>>
  /\ decJwe[2].unprotected = <<>>
  /\ decJwe[2].iv = <<>>

(***************************************************************************)
(* C11.  The typed decoders reject the other variant: decoding the bytes   *)
(* of an encoded JWE as JsonWebSignature fails with NotJws, decoding the   *)
(* bytes of an encoded JWS as JsonWebEncryption fails with NotJwe; no      *)
(* value of the requested type is built from the other variant's fields.   *)
(***************************************************************************)
C11_TypedReject ==
  /\ (origin = "encoded" /\ decJws # NoResult /\ Unwrap(data)[1] = "Encryption")
       => decJws = Err(<<"NotJws">>)
  /\ (origin = "encoded" /\ decJwe # NoResult /\ Unwrap(data)[1] = "Signature")
       => decJwe = Err(<<"NotJwe">>)

\* A JWS whose payload text is empty is encoded; decoding its bytes as a
\* JsonWebEncryption panics.
C11_Witness ==
  /\ origin = "encoded"
  /\ Unwrap(data)[1] = "Signature"
  /\ Unwrap(data)[2].payload = <<>>
  /\ decJwe = Panic

(***************************************************************************)
(* C12.  The link a caller supplies in a JsonWebSignature is never         *)
(* trusted: encoding two JWS values that differ only in link writes the    *)
(* same bytes (no link on the wire), and the link of the decoded value is  *)
(* the identifier parsed from the payload bytes, whatever link the encoded *)
(* value carried.                                                          *)
(***************************************************************************)
C12_LinkNotTrusted ==
  /\ (other # None /\ Unwrap(data)[1] = "Signature") =>
       /\ otherWriter = writer
       /\ \A i \in 1..Len(writer) : WireKeys(writer[i]) \subseteq JwsGroup
  /\ (origin = "encoded" /\ IsOk(decJose) /\ decJose[2][1] = "Signature") =>
       /\ Ok(decJose[2][2].link) = CidTryFrom(WireGet(Unwrap(block), K_payload)[2])
       /\ Ok(decJose[2][2].link) = CidTryFrom(Base64Decode(Unwrap(data)[2].payload)[2])

\* The caller's link is not the identifier of the payload, the other value
\* carries another link, and the decoded link is the one of the payload.
C12_Witness ==
  /\ origin = "encoded"
  /\ Unwrap(data)[1] = "Signature"
  /\ Unwrap(other)[2].link # Unwrap(data)[2].link
  /\ otherWriter = writer
  /\ IsOk(decJose)
  /\ decJose[2][2].link # Unwrap(data)[2].link
  /\ decJose[2][2].payload = Unwrap(data)[2].payload

(***************************************************************************)
(* C13.  Decoding through the text (DAG-JSON) codec reconstructs the       *)
(* domain value directly from the base64url text fields: it gives back the *)
(* value that was encoded to the text, as a Jose and as the type of its    *)
(* variant, and never goes through the wire model (Encoded) or its         *)
(* conversions.                                                            *)
(***************************************************************************)
C13_TextCodecDirect ==
  (decJson # NoResult /\ ValidJose(Unwrap(data))) =>
    /\ decJson[1] = Ok(Unwrap(data))
    /\ decJson[2] = Ok(Unwrap(data)[2])
    /\ "Encoded" \notin jsonVia

\* The text of a valid JWE is read as an Encoded and the decode fails.
C13_Witness ==
  /\ decJson # NoResult
  /\ ValidJose(Unwrap(data))
  /\ Unwrap(data)[1] = "Encryption"
  /\ "Encoded" \in jsonVia
  /\ decJson[1] = Err(<<"JsonDecode">>)
  /\ decJson[2] = Err(<<"JsonDecode">>)

OneGroupNoEmptyList ==
  /\ \/ WireKeys(Unwrap(block)) \subseteq JwsGroup
     \/ WireKeys(Unwrap(block)) \subseteq JweGroup
  /\ \A i \in 1..Len(Unwrap(block)[2]) :
       Unwrap(block)[2][i][2] # <<"List", <<>>>>

C15_SignaturesKeyPresent ==
  (Written /\ Unwrap(data)[1] = "Signature") =>
    JwsGroup \subseteq WireKeys(writer[1])

\* A JWS without signatures is written as a map with the payload key alone.
C15_Witness ==
  /\ Written
  /\ Unwrap(data)[1] = "Signature"
  /\ Unwrap(data)[2].signatures = <<>>
  /\ WireKeys(writer[1]) = { K_payload }

(***************************************************************************)
(* C16.  Every Encoded the conversion layer produces from a Jose value has *)
(* exactly one field group populated: from a JWS, payload is present and   *)
(* iv, aad, tag, protected, ciphertext, recipients, unprotected are        *)
(* absent; from a JWE, payload and signatures are absent and iv, tag,      *)
(* protected, ciphertext are present.                                      *)
(***************************************************************************)
OneGroupPopulated(variant, encoded) ==
  IF variant = "Signature"
  THEN /\ encoded.payload # None
       /\ encoded.iv = None
       /\ encoded.aad = None
       /\ encoded.tag = None
       /\ encoded.protected = None
       /\ encoded.ciphertext = None
       /\ encoded.recipients = None
       /\ encoded.unprotected = None
  ELSE /\ encoded.payload = None
       /\ encoded.signatures = None
       /\ encoded.iv # None
       /\ encoded.tag # None
       /\ encoded.protected # None
       /\ encoded.ciphertext # None

C16_OneGroupPopulated ==
  (encRes # NoResult /\ IsOk(Encoded_try_from_Jose(Unwrap(data)))) =>
    /\ OneGroupPopulated(Unwrap(data)[1], Encoded_try_from_Jose(Unwrap(data))[2])
    /\ Written
    /\ IF Unwrap(data)[1] = "Signature"
       THEN K_payload \in WireKeys(writer[1]) /\ WireKeys(writer[1]) \subseteq JwsGroup
       ELSE JweRequired \subseteq WireKeys(writer[1]) /\ WireKeys(writer[1]) \subseteq JweGroup

\* A JWE with every field filled is converted to an Encoded of the JWE
\* group only, and written with the seven keys of that group.
C16_Witness ==
  /\ encRes # NoResult
  /\ IsOk(Encoded_try_from_Jose(Unwrap(data)))
  /\ Unwrap(data)[1] = "Encryption"
  /\ WireKeys(writer[1]) = JweGroup
  /\ Encoded_try_from_Jose(Unwrap(data))[2].payload = None
  /\ Encoded_try_from_Jose(Unwrap(data))[2].signatures = None

(***************************************************************************)
(* C17.  Encoding a JsonWebEncryption whose iv is the empty text writes    *)
(* the iv key with a zero-length byte string, and decoding the bytes       *)
(* written succeeds and returns iv equal to the empty text.                *)
(***************************************************************************)
EmptyIvJwe ==
  /\ data # None
  /\ Unwrap(data)[1] = "Encryption"
  /\ Unwrap(data)[2].iv = <<>>

C17_EmptyIvPresent ==
  /\ (EmptyIvJwe /\ Written) =>
       /\ K_iv \in WireKeys(writer[1])
       /\ WireGet(writer[1], K_iv) = <<"Bytes", <<>>>>
  /\ (EmptyIvJwe /\ origin = "encoded" /\ decJose # NoResult) =>
       /\ IsOk(decJose)
       /\ decJose[2][1] = "Encryption"
       /\ decJose[2][2].iv = <<>>
  /\ (EmptyIvJwe /\ origin = "encoded" /\ decJwe # NoResult) =>
       /\ IsOk(decJwe)
       /\ decJwe[2].iv = <<>>

C17_Witness ==
  /\ EmptyIvJwe
  /\ origin = "encoded"
  /\ WireGet(Unwrap(block), K_iv) = <<"Bytes", <<>>>>
  /\ IsOk(decJwe)
  /\ decJwe[2].iv = <<>>
  /\ decJwe[2].ciphertext # <<>>

=============================================================================
